---------------------------- MODULE Spec2Model ----------------------------
(***************************************************************************)
(* Model of the inventory / request-approval core of the lab chemical     *)
(* inventory application (src/app.py, with the older revision             *)
(* src/chemical_page.py).                                                  *)
(*                                                                         *)
(* The three tables are sequences: ids are AUTOINCREMENT primary keys and  *)
(* no row is ever deleted, so the row with id i is the i-th element.       *)
(* Amounts and quantities are floats in the source; the model uses         *)
(* integers (a fixed unit of stock), on which float +, - and comparison    *)
(* are exact.  Strings that the code strips are sequences of characters.   *)
(* The requester's names and e-mail and created_at are stored and never    *)
(* read by any operation; they are left out of the records.                *)
(***************************************************************************)
EXTENDS Integers, Sequences, FiniteSets, TLC

VARIABLES
    chemicals,          \* table chemicals: Seq of Chemical rows, id = index
    requests,           \* table requests: Seq of Request rows, id = index
    purchase_requests,  \* table purchase_requests: Seq of rows, id = index
    ret,                \* what the last call returned / raised
    deducted,           \* history: total stock subtracted on behalf of request i
    sessions            \* the open Session of each concurrent caller

vars == <<chemicals, requests, purchase_requests, ret, deducted, sessions>>

db == <<chemicals, requests, purchase_requests>>

-----------------------------------------------------------------------------
(* Bounds of the model *)

MaxChems == 2
MaxReqs == 2
MaxAmount == 2
MaxQty == 1
MaxDebt == 1
MaxDeducted == 2
NumSessions == 2

-----------------------------------------------------------------------------
(* Inputs *)

\* names as typed in the form or read from a CSV row, before .strip(); the
\* form refuses a blank name, the CSV import passes every row on
NameInputs == { <<"a">>, <<"a", " ">>, <<" ">> }

\* (unit, location, notes) as typed, before .strip()
AttrInputs == { << <<"g", " ">>, <<" ", "A">>, <<>> >> }

AmountInputs == 0..MaxAmount
DeltaInputs == {-1, 1}
QtyInputs == 0..MaxQty
ChemIdInputs == 1..MaxChems
ReqIdInputs == 1..MaxReqs
SessionIds == 1..NumSessions

\* the literals the callers pass to set_request_status: "rejected" and
\* "fulfilled" in app.py, and also "approved" in chemical_page.py
StatusInputs == {"approved", "rejected", "fulfilled"}

-----------------------------------------------------------------------------
(* str.strip() *)

IsSpace(ch) == ch = " "

RECURSIVE LStrip(_)
LStrip(s) == IF s # <<>> /\ IsSpace(Head(s)) THEN LStrip(Tail(s)) ELSE s

RECURSIVE RStrip(_)
RStrip(s) == IF s # <<>> /\ IsSpace(s[Len(s)])
             THEN RStrip(SubSeq(s, 1, Len(s) - 1)) ELSE s

Strip(s) == RStrip(LStrip(s))

-----------------------------------------------------------------------------
(* Rows *)

Chemical(name, amount, unit, location, notes) ==
    [name |-> name, amount |-> amount, unit |-> unit,
     location |-> location, notes |-> notes]

Request(chem_id, quantity, status) ==
    [chem_id |-> chem_id, quantity |-> quantity, status |-> status]

\* the value a call returns: (ok, msg) of approve_request_and_adjust, or
\* the exception another helper raises
Ret(op, id, ok, reason, stock) ==
    [op |-> op, id |-> id, ok |-> ok, reason |-> reason, stock |-> stock]

\* a Session that holds nothing: no call is in progress in it
Idle == [pc |-> "idle", req_id |-> 0, chem_id |-> 0, have |-> 0, need |-> 0,
         stale |-> FALSE]

Init ==
    /\ chemicals = <<>>
    /\ requests = <<>>
    /\ purchase_requests = <<>>
    /\ ret = Ret("init", 0, TRUE, "", 0)
    /\ deducted = <<>>
    /\ sessions = [s \in SessionIds |-> Idle]

-----------------------------------------------------------------------------
(* Helpers of app.py, each one Session: read, mutate, commit *)

\* sess.scalar(select(Chemical).where(Chemical.name == name.strip()))
ChemByName(n) == { c \in DOMAIN chemicals : chemicals[c].name = n }

upsert_chemical(name, amount, unit, location, notes) ==
    LET found == ChemByName(Strip(name)) IN
    /\ IF found = {}
       THEN chemicals' = Append(chemicals,
                Chemical(Strip(name), amount, Strip(unit), Strip(location), Strip(notes)))
       ELSE LET c == CHOOSE x \in found : TRUE IN
            chemicals' = [chemicals EXCEPT ![c] =
                Chemical(chemicals[c].name, amount, Strip(unit), Strip(location), Strip(notes))]
    /\ ret' = Ret("upsert_chemical", 0, TRUE, "", 0)
    /\ UNCHANGED <<requests, purchase_requests, deducted, sessions>>

update_stock(chem_id, delta_amount) ==
    IF chem_id \notin DOMAIN chemicals
    THEN /\ ret' = Ret("update_stock", 0, FALSE, "Chemical not found", 0)
         /\ UNCHANGED <<db, deducted, sessions>>
    ELSE /\ chemicals' = [chemicals EXCEPT ![chem_id].amount = @ + delta_amount]
         /\ ret' = Ret("update_stock", 0, TRUE, "", 0)
         /\ UNCHANGED <<requests, purchase_requests, deducted, sessions>>

\* variant: the insert reuses the newest row's id
add_request_ReusesId(chem_id, qty) ==
    /\ IF requests = <<>>
       THEN /\ requests' = Append(requests, Request(chem_id, qty, "pending"))
            /\ deducted' = Append(deducted, 0)
       ELSE /\ requests' = [requests EXCEPT ![Len(requests)] =
                                Request(chem_id, qty, "pending")]
            /\ UNCHANGED deducted
    /\ ret' = Ret("add_request", 0, TRUE, "", 0)
    /\ UNCHANGED <<chemicals, purchase_requests, sessions>>

\* The insert carries no check of qty or of chem_id.  A chem_id that names no
\* chemical is stored by SQLite (which does not enforce foreign keys unless
\* asked to) and refused with an IntegrityError by PostgreSQL.
add_request(chem_id, qty) ==
    \/ /\ requests' = Append(requests, Request(chem_id, qty, "pending"))
       /\ deducted' = Append(deducted, 0)
       /\ ret' = Ret("add_request", 0, TRUE, "", 0)
       /\ UNCHANGED <<chemicals, purchase_requests, sessions>>
    \/ /\ chem_id \notin DOMAIN chemicals
       /\ ret' = Ret("add_request", 0, FALSE, "IntegrityError", 0)
       /\ UNCHANGED <<db, deducted, sessions>>

\* mutant: marking a request fulfilled takes its quantity out of stock
set_request_status_Deducts(req_id, new_status) ==
    /\ IF req_id \in DOMAIN requests
       THEN requests' = [requests EXCEPT ![req_id].status = new_status]
       ELSE UNCHANGED requests
    /\ IF /\ req_id \in DOMAIN requests
          /\ new_status = "fulfilled"
          /\ requests[req_id].chem_id \in DOMAIN chemicals
       THEN chemicals' = [chemicals EXCEPT ![requests[req_id].chem_id].amount =
                              @ - requests[req_id].quantity]
       ELSE UNCHANGED chemicals
    /\ ret' = Ret("set_request_status", 0, TRUE, "", 0)
    /\ UNCHANGED <<purchase_requests, deducted, sessions>>

set_request_status(req_id, new_status) ==
    /\ IF req_id \in DOMAIN requests
       THEN requests' = [requests EXCEPT ![req_id].status = new_status]
       ELSE UNCHANGED requests
    /\ ret' = Ret("set_request_status", 0, TRUE, "", 0)
    /\ UNCHANGED <<chemicals, purchase_requests, deducted, sessions>>

(* approve_request_and_adjust: the reads and checks, then the writes *)

Denial(reason) ==
    [ok |-> FALSE, reason |-> reason, chem_id |-> 0, have |-> 0, need |-> 0]

\* mutant: no check that the request is already approved or fulfilled
ApproveCheck_NoStatusGuard(req_id) ==
    IF req_id \notin DOMAIN requests
    THEN Denial("Request not found.")
    ELSE LET req == requests[req_id] IN
    IF req.chem_id \notin DOMAIN chemicals
    THEN Denial("Chemical not found.")
    ELSE LET have == chemicals[req.chem_id].amount
             need == req.quantity IN
    IF need <= 0
    THEN Denial("Invalid quantity.")
    ELSE IF have < need
    THEN Denial("Not enough stock")
    ELSE [ok |-> TRUE, reason |-> "Approved.", chem_id |-> req.chem_id,
          have |-> have, need |-> need]

\* mutant: have <= need in place of have < need
ApproveCheck_StrictlyMore(req_id) ==
    IF req_id \notin DOMAIN requests
    THEN Denial("Request not found.")
    ELSE LET req == requests[req_id] IN
    IF req.status \in {"approved", "fulfilled"}
    THEN Denial("Request already processed; no stock changed.")
    ELSE IF req.chem_id \notin DOMAIN chemicals
    THEN Denial("Chemical not found.")
    ELSE LET have == chemicals[req.chem_id].amount
             need == req.quantity IN
    IF need <= 0
    THEN Denial("Invalid quantity.")
    ELSE IF have <= need
    THEN Denial("Not enough stock")
    ELSE [ok |-> TRUE, reason |-> "Approved.", chem_id |-> req.chem_id,
          have |-> have, need |-> need]

\* mutant: a rejected request counts as already processed
ApproveCheck_RejectedGuard(req_id) ==
    IF req_id \notin DOMAIN requests
    THEN Denial("Request not found.")
    ELSE LET req == requests[req_id] IN
    IF req.status \in {"approved", "fulfilled", "rejected"}
    THEN Denial("Request already processed; no stock changed.")
    ELSE IF req.chem_id \notin DOMAIN chemicals
    THEN Denial("Chemical not found.")
    ELSE LET have == chemicals[req.chem_id].amount
             need == req.quantity IN
    IF need <= 0
    THEN Denial("Invalid quantity.")
    ELSE IF have < need
    THEN Denial("Not enough stock")
    ELSE [ok |-> TRUE, reason |-> "Approved.", chem_id |-> req.chem_id,
          have |-> have, need |-> need]

\* what the reads of the request and of its chemical decide
ApproveCheck(req_id) ==
    IF req_id \notin DOMAIN requests
    THEN Denial("Request not found.")
    ELSE LET req == requests[req_id] IN
    IF req.status \in {"approved", "fulfilled"}
    THEN Denial("Request already processed; no stock changed.")
    ELSE IF req.chem_id \notin DOMAIN chemicals
    THEN Denial("Chemical not found.")
    ELSE LET have == chemicals[req.chem_id].amount
             need == req.quantity IN
    IF need <= 0
    THEN Denial("Invalid quantity.")
    ELSE IF have < need
    THEN Denial("Not enough stock")
    ELSE [ok |-> TRUE, reason |-> "Approved.", chem_id |-> req.chem_id,
          have |-> have, need |-> need]

\* mutant: a denied request is marked rejected
ApproveDeny_Rejects(req_id, reason) ==
    /\ ret' = Ret("approve_request_and_adjust", req_id, FALSE, reason, 0)
    /\ IF req_id \in DOMAIN requests
       THEN requests' = [requests EXCEPT ![req_id].status = "rejected"]
       ELSE UNCHANGED requests
    /\ UNCHANGED <<chemicals, purchase_requests, deducted>>

\* return False, msg
ApproveDeny(req_id, reason) ==
    /\ ret' = Ret("approve_request_and_adjust", req_id, FALSE, reason, 0)
    /\ UNCHANGED <<db, deducted>>

\* mutant: the amount is committed and the status is not
ApproveWrite_AmountOnly(req_id, chem_id, have, need) ==
    /\ chemicals' = [chemicals EXCEPT ![chem_id].amount = have - need]
    /\ deducted' = [deducted EXCEPT ![req_id] = @ + need]
    /\ ret' = Ret("approve_request_and_adjust", req_id, TRUE, "Approved.", have - need)
    /\ UNCHANGED <<requests, purchase_requests>>

\* chem.amount = have - need; req.status = "approved"; sess.commit();
\* return True, msg (the message carries chem.amount).  The flush writes both
\* rows in one transaction: UPDATE ... SET amount = <have - need> and
\* UPDATE ... SET status = 'approved', each WHERE id = <primary key>.
ApproveWrite(req_id, chem_id, have, need) ==
    /\ chemicals' = [chemicals EXCEPT ![chem_id].amount = have - need]
    /\ requests' = [requests EXCEPT ![req_id].status = "approved"]
    /\ deducted' = [deducted EXCEPT ![req_id] = @ + need]
    /\ ret' = Ret("approve_request_and_adjust", req_id, TRUE, "Approved.", have - need)
    /\ UNCHANGED purchase_requests

approve_request_and_adjust(req_id) ==
    LET d == ApproveCheck(req_id) IN
    /\ IF d.ok
       THEN ApproveWrite(req_id, d.chem_id, d.have, d.need)
       ELSE ApproveDeny(req_id, d.reason)
    /\ UNCHANGED sessions

-----------------------------------------------------------------------------
(* The core operations called one after another *)

UpsertChemical ==
    \E name \in NameInputs, amount \in AmountInputs, attrs \in AttrInputs :
        /\ ChemByName(Strip(name)) = {} => Len(chemicals) < MaxChems
        /\ upsert_chemical(name, amount, attrs[1], attrs[2], attrs[3])

UpdateStock ==
    \E chem_id \in ChemIdInputs, delta \in DeltaInputs :
        /\ chem_id \in DOMAIN chemicals =>
               chemicals[chem_id].amount + delta \in -MaxDebt..MaxAmount
        /\ update_stock(chem_id, delta)

AddRequest ==
    \E chem_id \in ChemIdInputs, qty \in QtyInputs :
        /\ Len(requests) < MaxReqs
        /\ add_request(chem_id, qty)

SetRequestStatus ==
    \E req_id \in ReqIdInputs, new_status \in StatusInputs :
        set_request_status(req_id, new_status)

ApproveRequestAndAdjust ==
    \E req_id \in ReqIdInputs :
        /\ req_id \in DOMAIN requests =>
               deducted[req_id] + requests[req_id].quantity <= MaxDeducted
        /\ approve_request_and_adjust(req_id)

Next ==
    \/ UpsertChemical
    \/ UpdateStock
    \/ AddRequest
    \/ SetRequestStatus
    \/ ApproveRequestAndAdjust

Spec == Init /\ [][Next]_vars

-----------------------------------------------------------------------------
(* Concurrent callers: approve_request_and_adjust in two steps.  The reads  *)
(* (sess.get) run outside any lock; the UPDATEs that sess.commit() flushes  *)
(* write the values computed from those reads.                              *)

\* a commit wrote chemical chem_id's amount: every other Session that has read
\* that row and not yet committed now holds an out-of-date value
MarkStale(s, chem_id) ==
    [t \in SessionIds |->
        IF t # s /\ sessions[t].pc = "commit" /\ sessions[t].chem_id = chem_id
        THEN [sessions[t] EXCEPT !.stale = TRUE]
        ELSE sessions[t]]

\* lines 240-252 in Session s
approve_begin(s, req_id) ==
    LET d == ApproveCheck(req_id) IN
    /\ sessions[s].pc \in {"idle", "done"}
    /\ IF d.ok
       THEN /\ sessions' = [sessions EXCEPT ![s] =
                   [pc |-> "commit", req_id |-> req_id, chem_id |-> d.chem_id,
                    have |-> d.have, need |-> d.need, stale |-> FALSE]]
            /\ UNCHANGED <<db, deducted, ret>>
       ELSE /\ ApproveDeny(req_id, d.reason)
            /\ sessions' = [sessions EXCEPT ![s] = Idle]

\* lines 253-256 in Session s
approve_commit(s) ==
    LET my == sessions[s] IN
    /\ my.pc = "commit"
    /\ ApproveWrite(my.req_id, my.chem_id, my.have, my.need)
    /\ sessions' = [MarkStale(s, my.chem_id) EXCEPT ![s].pc = "done"]

\* the tables are filled before the concurrent callers start
NoCallInProgress == \A s \in SessionIds : sessions[s].pc # "commit"

ApproveBegin ==
    \E s \in SessionIds, req_id \in ReqIdInputs :
        /\ req_id \in DOMAIN requests =>
               deducted[req_id] + requests[req_id].quantity <= MaxDeducted
        /\ approve_begin(s, req_id)

ApproveCommit ==
    \E s \in SessionIds :
        /\ sessions[s].pc = "commit" =>
               deducted[sessions[s].req_id] + sessions[s].need <= MaxDeducted
        /\ approve_commit(s)

NextConc ==
    \/ NoCallInProgress /\ UpsertChemical
    \/ NoCallInProgress /\ AddRequest
    \/ ApproveBegin
    \/ ApproveCommit

SpecConc == Init /\ [][NextConc]_vars

-----------------------------------------------------------------------------
(* Concurrent callers of update_stock.  `chem.amount += delta` is computed  *)
(* in Python from the amount sess.get read; sess.commit() flushes           *)
(* UPDATE chemicals SET amount = <that sum>.  A Session in update_stock is  *)
(* at pc "commit_stock", holds the amount it read in `have` and the amount  *)
(* it takes out of stock, -delta_amount, in `need`.                         *)

\* lines 141-144 in Session s
update_stock_begin(s, chem_id, delta_amount) ==
    /\ sessions[s].pc \in {"idle", "done"}
    /\ IF chem_id \notin DOMAIN chemicals
       THEN /\ ret' = Ret("update_stock", 0, FALSE, "Chemical not found", 0)
            /\ sessions' = [sessions EXCEPT ![s] = Idle]
            /\ UNCHANGED <<db, deducted>>
       ELSE /\ sessions' = [sessions EXCEPT ![s] =
                   [pc |-> "commit_stock", req_id |-> 0, chem_id |-> chem_id,
                    have |-> chemicals[chem_id].amount, need |-> -delta_amount,
                    stale |-> FALSE]]
            /\ UNCHANGED <<db, deducted, ret>>

\* lines 145-146 in Session s
update_stock_commit(s) ==
    LET my == sessions[s] IN
    /\ my.pc = "commit_stock"
    /\ chemicals' = [chemicals EXCEPT ![my.chem_id].amount = my.have - my.need]
    /\ ret' = Ret("update_stock", 0, TRUE, "", 0)
    /\ sessions' = [MarkStale(s, my.chem_id) EXCEPT ![s] = Idle]
    /\ UNCHANGED <<requests, purchase_requests, deducted>>

\* the tables are filled while no Session is between its read and its commit
NoSessionOpen == \A s \in SessionIds : sessions[s].pc \in {"idle", "done"}

UpdateStockBegin ==
    \E s \in SessionIds, chem_id \in ChemIdInputs, delta \in DeltaInputs :
        update_stock_begin(s, chem_id, delta)

UpdateStockCommit ==
    \E s \in SessionIds :
        /\ sessions[s].pc = "commit_stock" =>
               sessions[s].have - sessions[s].need \in -MaxDebt..MaxAmount
        /\ update_stock_commit(s)

NextStock ==
    \/ NoSessionOpen /\ UpsertChemical
    \/ NoSessionOpen /\ AddRequest
    \/ UpdateStockBegin
    \/ UpdateStockCommit
    \/ ApproveBegin
    \/ ApproveCommit

SpecStock == Init /\ [][NextStock]_vars

-----------------------------------------------------------------------------
(* Concurrent callers of upsert_chemical.  The SELECT by name runs outside  *)
(* any lock; sess.commit() flushes the INSERT or the UPDATE decided from    *)
(* it.  The column is declared unique=True, so the database refuses an      *)
(* INSERT whose name is stored by then (IntegrityError out of commit).  A   *)
(* Session in upsert_chemical is at pc "commit_upsert", holds the id it     *)
(* found in chem_id (0: none) and the row it will write in `row`.           *)

\* lines 128-137 in Session s
upsert_begin(s, name, amount, unit, location, notes) ==
    LET found == ChemByName(Strip(name)) IN
    /\ sessions[s].pc \in {"idle", "done"}
    /\ sessions' = [sessions EXCEPT ![s] =
           [pc |-> "commit_upsert", req_id |-> 0,
            chem_id |-> IF found = {} THEN 0 ELSE CHOOSE x \in found : TRUE,
            have |-> 0, need |-> 0, stale |-> FALSE,
            row |-> Chemical(Strip(name), amount, Strip(unit), Strip(location),
                             Strip(notes))]]
    /\ UNCHANGED <<db, deducted, ret>>

\* variant: the name column carries no UNIQUE constraint
upsert_commit_NoUnique(s) ==
    LET my == sessions[s] IN
    /\ my.pc = "commit_upsert"
    /\ IF my.chem_id = 0
       THEN chemicals' = Append(chemicals, my.row)
       ELSE chemicals' = [chemicals EXCEPT ![my.chem_id] = my.row]
    /\ ret' = Ret("upsert_chemical", 0, TRUE, "", 0)
    /\ sessions' = [sessions EXCEPT ![s] = Idle]
    /\ UNCHANGED <<requests, purchase_requests, deducted>>

\* line 138 in Session s
upsert_commit(s) ==
    LET my == sessions[s] IN
    /\ my.pc = "commit_upsert"
    /\ IF my.chem_id = 0
       THEN IF ChemByName(my.row.name) = {}
            THEN /\ chemicals' = Append(chemicals, my.row)
                 /\ ret' = Ret("upsert_chemical", 0, TRUE, "", 0)
            ELSE /\ UNCHANGED chemicals
                 /\ ret' = Ret("upsert_chemical", 0, FALSE, "IntegrityError", 0)
       ELSE /\ chemicals' = [chemicals EXCEPT ![my.chem_id] = my.row]
            /\ ret' = Ret("upsert_chemical", 0, TRUE, "", 0)
    /\ sessions' = [sessions EXCEPT ![s] = Idle]
    /\ UNCHANGED <<requests, purchase_requests, deducted>>

UpsertBegin ==
    \E s \in SessionIds, name \in NameInputs, amount \in AmountInputs,
       attrs \in AttrInputs :
        /\ ChemByName(Strip(name)) = {} => Len(chemicals) < MaxChems
        /\ upsert_begin(s, name, amount, attrs[1], attrs[2], attrs[3])

UpsertCommit == \E s \in SessionIds : upsert_commit(s)

NextUpsert ==
    \/ UpsertBegin
    \/ UpsertCommit

SpecUpsert == Init /\ [][NextUpsert]_vars

-----------------------------------------------------------------------------
(* Purchase requests: materials not in stock.  created_at is a timestamp no  *)
(* operation reads and is left out of the row.                               *)

MaxPurch == 1

\* one id more than the table can hold: some id always names no row
PurchIdInputs == 1..(MaxPurch + 1)

\* the literals the admin buttons pass to set_purchase_request_status
PurchaseStatusInputs_Fulfilled == {"approved", "rejected", "fulfilled"}

PurchaseStatusInputs == {"approved", "rejected", "purchased"}

\* the form's fields as typed: text fields may carry blanks
PurchaseInputs ==
    { [ material_name |-> <<" ", "e">>, cas_number |-> <<"6", "-", "5">>,
        specifications |-> <<"p", " ">>, amount |-> 1, unit |-> <<"L">>,
        requester_first_name |-> <<"n">>, requester_surname |-> <<"s">>,
        requester_email |-> <<"@">>, comments |-> <<>>,
        attachment_path |-> <<>> ] }

PurchaseRequest(f, status) ==
    [ material_name |-> Strip(f.material_name),
      cas_number |-> Strip(f.cas_number),
      specifications |-> Strip(f.specifications),
      amount |-> f.amount,
      unit |-> Strip(f.unit),
      requester_first_name |-> Strip(f.requester_first_name),
      requester_surname |-> Strip(f.requester_surname),
      requester_email |-> Strip(f.requester_email),
      comments |-> Strip(f.comments),
      attachment_path |-> Strip(f.attachment_path),
      status |-> status ]

add_purchase_request(f) ==
    /\ purchase_requests' = Append(purchase_requests, PurchaseRequest(f, "pending"))
    /\ ret' = Ret("add_purchase_request", Len(purchase_requests) + 1, TRUE, "", 0)
    /\ UNCHANGED <<chemicals, requests, deducted, sessions>>

\* variant: a missing id is reported as an error
set_purchase_request_status_Raises(req_id, new_status) ==
    /\ IF req_id \in DOMAIN purchase_requests
       THEN /\ purchase_requests' =
                   [purchase_requests EXCEPT ![req_id].status = new_status]
            /\ ret' = Ret("set_purchase_request_status", req_id, TRUE, "", 0)
       ELSE /\ UNCHANGED purchase_requests
            /\ ret' = Ret("set_purchase_request_status", req_id, FALSE, "not found", 0)
    /\ UNCHANGED <<chemicals, requests, deducted, sessions>>

\* variant: marking a purchase as purchased books the amount into stock
set_purchase_request_status_Stocks(req_id, new_status) ==
    /\ IF req_id \in DOMAIN purchase_requests
       THEN purchase_requests' =
                [purchase_requests EXCEPT ![req_id].status = new_status]
       ELSE UNCHANGED purchase_requests
    /\ IF req_id \in DOMAIN purchase_requests /\ new_status = "purchased"
       THEN chemicals' = Append(chemicals,
                Chemical(purchase_requests[req_id].material_name,
                         purchase_requests[req_id].amount,
                         purchase_requests[req_id].unit, <<>>, <<>>))
       ELSE UNCHANGED chemicals
    /\ ret' = Ret("set_purchase_request_status", req_id, TRUE, "", 0)
    /\ UNCHANGED <<requests, deducted, sessions>>

set_purchase_request_status(req_id, new_status) ==
    /\ IF req_id \in DOMAIN purchase_requests
       THEN purchase_requests' =
                [purchase_requests EXCEPT ![req_id].status = new_status]
       ELSE UNCHANGED purchase_requests
    /\ ret' = Ret("set_purchase_request_status", req_id, TRUE, "", 0)
    /\ UNCHANGED <<chemicals, requests, deducted, sessions>>

AddPurchaseRequest ==
    \E f \in PurchaseInputs :
        /\ Len(purchase_requests) < MaxPurch
        /\ add_purchase_request(f)

SetPurchaseRequestStatus ==
    \E req_id \in PurchIdInputs, new_status \in PurchaseStatusInputs :
        set_purchase_request_status(req_id, new_status)

NextPurchase ==
    \/ UpsertChemical
    \/ AddRequest
    \/ SetRequestStatus
    \/ AddPurchaseRequest
    \/ SetPurchaseRequestStatus

SpecPurchase == Init /\ [][NextPurchase]_vars

-----------------------------------------------------------------------------
(* Submissions: the two insert helpers next to rows that already exist.     *)

\* one purchase request more than MaxPurch, so that an insert meets a row
AddPurchaseRequestNext ==
    \E f \in PurchaseInputs :
        /\ Len(purchase_requests) <= MaxPurch
        /\ add_purchase_request(f)

NextAdd ==
    \/ UpsertChemical
    \/ AddRequest
    \/ AddPurchaseRequestNext
    \/ SetPurchaseRequestStatus

SpecAdd == Init /\ [][NextAdd]_vars

-----------------------------------------------------------------------------
(* Listings: read-only queries, computed from the tables.                    *)

\* code points of the characters chemical names are built from
CharCode(ch) ==
    CASE ch = " " -> 32
      [] ch = "A" -> 65
      [] ch = "a" -> 97
      [] ch = "g" -> 103

Lower(ch) == IF ch = "A" THEN "a" ELSE ch

LowerStr(str) == [i \in DOMAIN str |-> Lower(str[i])]

\* ORDER BY name ASC: bytewise comparison, a prefix sorts first
RECURSIVE NameLeq(_, _)
NameLeq(x, y) ==
    IF x = <<>> THEN TRUE
    ELSE IF y = <<>> THEN FALSE
    ELSE IF Head(x) # Head(y) THEN CharCode(Head(x)) < CharCode(Head(y))
    ELSE NameLeq(Tail(x), Tail(y))

\* name ILIKE '%search%' for a search text without wildcard characters
ILike(name, search) ==
    \E i \in 0..(Len(name) - Len(search)) :
        SubSeq(LowerStr(name), i + 1, i + Len(search)) = LowerStr(search)

RECURSIVE OrderByName(_)
OrderByName(ids) ==
    IF ids = {} THEN <<>>
    ELSE LET first == CHOOSE c \in ids :
                          \A d \in ids : NameLeq(chemicals[c].name, chemicals[d].name)
         IN  << [ id |-> first, name |-> chemicals[first].name,
                  amount |-> chemicals[first].amount, unit |-> chemicals[first].unit,
                  location |-> chemicals[first].location ] >>
             \o OrderByName(ids \ {first})

list_chemicals(search) ==
    OrderByName({c \in DOMAIN chemicals :
                     search # <<>> => ILike(chemicals[c].name, search)})

\* FROM requests r JOIN chemicals c ON r.chem_id = c.id [WHERE r.status = :status]
\* ORDER BY r.id DESC, the rows with id <= n; status "" is Python's falsy filter
RECURSIVE RequestRowsFrom(_, _)
RequestRowsFrom(n, status) ==
    IF n = 0 THEN <<>>
    ELSE IF /\ requests[n].chem_id \in DOMAIN chemicals
            /\ status # "" => requests[n].status = status
         THEN << [ id |-> n, name |-> chemicals[requests[n].chem_id].name,
                   quantity |-> requests[n].quantity,
                   status |-> requests[n].status ] >>
              \o RequestRowsFrom(n - 1, status)
         ELSE RequestRowsFrom(n - 1, status)

list_requests(status) == RequestRowsFrom(Len(requests), status)

\* the filters the pages pass: none, "pending" and the status literals
FilterInputs == {"", "pending"} \cup StatusInputs

-----------------------------------------------------------------------------
(* Admin sessions on the pending in-stock requests.  A click reruns the     *)
(* page: the rerun lists the pending requests (line 531), draws a button    *)
(* per listed request and, reaching the clicked one, calls its helper.  No  *)
(* lock is held between the listing and the call.  The pc of an admin's     *)
(* Session names the clicked button, req_id the request it belongs to.      *)

ButtonInputs == {"approve_clicked", "reject_clicked", "fulfill_clicked"}

PendingIds ==
    LET rows == list_requests("pending") IN {rows[i].id : i \in DOMAIN rows}

\* line 531 and the loop down to the clicked button
admin_list(s, req_id, button) ==
    /\ sessions[s].pc = "idle"
    /\ req_id \in PendingIds
    /\ sessions' = [sessions EXCEPT ![s] =
           [pc |-> button, req_id |-> req_id, chem_id |-> 0, have |-> 0,
            need |-> 0, stale |-> FALSE]]
    /\ UNCHANGED <<db, deducted, ret>>

\* lines 539-554: the clicked button's call, one transaction
admin_apply(s) ==
    LET my == sessions[s]
        d  == ApproveCheck(my.req_id)
    IN  /\ my.pc \in ButtonInputs
        /\ sessions' = [sessions EXCEPT ![s] = Idle]
        /\ IF my.pc = "approve_clicked"
           THEN IF d.ok
                THEN ApproveWrite(my.req_id, d.chem_id, d.have, d.need)
                ELSE ApproveDeny(my.req_id, d.reason)
           ELSE /\ requests' = [requests EXCEPT ![my.req_id].status =
                       IF my.pc = "reject_clicked" THEN "rejected" ELSE "fulfilled"]
                /\ ret' = Ret("set_request_status", 0, TRUE, "", 0)
                /\ UNCHANGED <<chemicals, purchase_requests, deducted>>

NoAdminActing == \A s \in SessionIds : sessions[s].pc = "idle"

AdminList ==
    \E s \in SessionIds, req_id \in ReqIdInputs, button \in ButtonInputs :
        admin_list(s, req_id, button)

AdminApply == \E s \in SessionIds : admin_apply(s)

NextAdmin ==
    \/ NoAdminActing /\ UpsertChemical
    \/ NoAdminActing /\ AddRequest
    \/ AdminList
    \/ AdminApply

SpecAdmin == Init /\ [][NextAdmin]_vars

-----------------------------------------------------------------------------
(* Helpers of chemical_page.py, the sqlite3 revision of the same page: each  *)
(* is one SQL statement in its own transaction.                              *)

\* INSERT OR IGNORE: a row whose name is taken (UNIQUE) is dropped silently
add_chemical(name, amount, unit, location, notes) ==
    /\ IF ChemByName(Strip(name)) = {}
       THEN chemicals' = Append(chemicals,
                Chemical(Strip(name), amount, Strip(unit), Strip(location), Strip(notes)))
       ELSE UNCHANGED chemicals
    /\ ret' = Ret("add_chemical", 0, TRUE, "", 0)
    /\ UNCHANGED <<requests, purchase_requests, deducted, sessions>>

\* UPDATE chemicals SET amount = amount + ? WHERE id = ?
page_update_stock(chem_id, delta_amount) ==
    /\ IF chem_id \in DOMAIN chemicals
       THEN chemicals' = [chemicals EXCEPT ![chem_id].amount = @ + delta_amount]
       ELSE UNCHANGED chemicals
    /\ ret' = Ret("update_stock", 0, TRUE, "", 0)
    /\ UNCHANGED <<requests, purchase_requests, deducted, sessions>>

\* INSERT INTO requests ...: sqlite3 with foreign keys not switched on
page_add_request(chem_id, qty) ==
    /\ requests' = Append(requests, Request(chem_id, qty, "pending"))
    /\ deducted' = Append(deducted, 0)
    /\ ret' = Ret("add_request", 0, TRUE, "", 0)
    /\ UNCHANGED <<chemicals, purchase_requests, sessions>>

\* UPDATE requests SET status = ? WHERE id = ?
page_set_request_status(req_id, new_status) ==
    /\ IF req_id \in DOMAIN requests
       THEN requests' = [requests EXCEPT ![req_id].status = new_status]
       ELSE UNCHANGED requests
    /\ ret' = Ret("set_request_status", 0, TRUE, "", 0)
    /\ UNCHANGED <<chemicals, purchase_requests, deducted, sessions>>

AddChemical ==
    \E name \in NameInputs, amount \in AmountInputs, attrs \in AttrInputs :
        /\ ChemByName(Strip(name)) = {} => Len(chemicals) < MaxChems
        /\ add_chemical(name, amount, attrs[1], attrs[2], attrs[3])

PageUpdateStock ==
    \E chem_id \in ChemIdInputs, delta \in DeltaInputs :
        /\ chem_id \in DOMAIN chemicals =>
               chemicals[chem_id].amount + delta \in -MaxDebt..MaxAmount
        /\ page_update_stock(chem_id, delta)

PageAddRequest ==
    \E chem_id \in ChemIdInputs, qty \in QtyInputs :
        /\ Len(requests) < MaxReqs
        /\ page_add_request(chem_id, qty)

PageSetRequestStatus ==
    \E req_id \in ReqIdInputs, new_status \in StatusInputs :
        page_set_request_status(req_id, new_status)

NextPage ==
    \/ AddChemical
    \/ PageUpdateStock
    \/ PageAddRequest
    \/ PageSetRequestStatus

SpecPage == Init /\ [][NextPage]_vars

-----------------------------------------------------------------------------
(* Properties *)

ApproveOp == "approve_request_and_adjust"

\* C1: in every state reachable by the core operations, every Chemical's
\* amount is >= 0.
AmountNonNegative ==
    \A c \in DOMAIN chemicals : chemicals[c].amount >= 0

\* two Sessions have each completed an approval of a different request on the
\* same chemical, having read the same amount, the second before the first
\* committed
BothPassedOnSameStock(s1, s2) ==
    /\ s1 # s2
    /\ sessions[s1].pc = "done" /\ sessions[s2].pc = "done"
    /\ sessions[s1].req_id # sessions[s2].req_id
    /\ sessions[s1].chem_id = sessions[s2].chem_id
    /\ sessions[s1].have = sessions[s2].have
    /\ sessions[s2].stale

\* C2: two concurrent approvals of different requests on one chemical never
\* both pass the sufficiency check on the same stale amount: together they
\* approve no more than the stock that was there before both started.
NoJointOversell ==
    \A s1, s2 \in SessionIds :
        BothPassedOnSameStock(s1, s2) =>
            sessions[s1].need + sessions[s2].need <= sessions[s1].have

\* C3: a call of approve_request_and_adjust that directly follows a call on
\* the same request id returns a denial and changes no chemical's amount.
SecondApprovalDenied ==
    [][ (/\ ret.op = ApproveOp
         /\ ret'.op = ApproveOp
         /\ ret'.id = ret.id)
        => (/\ ~ret'.ok
            /\ DOMAIN chemicals' = DOMAIN chemicals
            /\ \A c \in DOMAIN chemicals :
                   chemicals'[c].amount = chemicals[c].amount) ]_vars

\* C3 witness: a request approved once (its quantity deducted once), and the
\* approval called again on it has just been denied as already processed.
SecondApprovalDeniedWitness ==
    /\ ret.op = ApproveOp /\ ~ret.ok
    /\ ret.reason = "Request already processed; no stock changed."
    /\ requests[ret.id].status = "approved"
    /\ requests[ret.id].quantity > 0
    /\ deducted[ret.id] = requests[ret.id].quantity

\* C4: when approve_request_and_adjust returns a denial, every chemical's
\* amount and every request's status are what they were before the call.
DenialChangesNothing ==
    [][ (ret'.op = ApproveOp /\ ~ret'.ok)
        => (/\ DOMAIN chemicals' = DOMAIN chemicals
            /\ DOMAIN requests' = DOMAIN requests
            /\ \A c \in DOMAIN chemicals :
                   chemicals'[c].amount = chemicals[c].amount
            /\ \A r \in DOMAIN requests :
                   requests'[r].status = requests[r].status) ]_vars

\* C4 witness: a denial for insufficient stock of a pending request.
DenialChangesNothingWitness ==
    /\ ret.op = ApproveOp /\ ~ret.ok
    /\ ret.reason = "Not enough stock"
    /\ requests[ret.id].status = "pending"
    /\ chemicals[requests[ret.id].chem_id].amount < requests[ret.id].quantity

\* the case in which the approval has to succeed
Approvable(req_id) ==
    /\ req_id \in DOMAIN requests
    /\ requests[req_id].status \notin {"approved", "fulfilled"}
    /\ requests[req_id].chem_id \in DOMAIN chemicals
    /\ 0 < requests[req_id].quantity
    /\ requests[req_id].quantity <= chemicals[requests[req_id].chem_id].amount

\* C5: an approval of an existing request that is neither approved nor
\* fulfilled, whose chemical exists and holds 0 < quantity <= amount, succeeds,
\* sets the amount to the old amount minus the quantity, sets the status to
\* approved, reports the new amount, and changes no other chemical or request.
ApprovalSucceeds ==
    [][ \A r \in ReqIdInputs :
          (ret'.op = ApproveOp /\ ret'.id = r /\ Approvable(r))
          => LET c == requests[r].chem_id IN
             /\ ret'.ok
             /\ chemicals' = [chemicals EXCEPT
                                ![c].amount = chemicals[c].amount - requests[r].quantity]
             /\ requests' = [requests EXCEPT ![r].status = "approved"]
             /\ ret'.stock = chemicals[c].amount - requests[r].quantity ]_vars

\* C5 witness: an approval has succeeded and used up the whole stock of its
\* chemical, with another chemical and another request in the tables.
ApprovalSucceedsWitness ==
    /\ ret.op = ApproveOp /\ ret.ok
    /\ Len(chemicals) = MaxChems /\ Len(requests) = MaxReqs
    /\ requests[ret.id].status = "approved"
    /\ chemicals[requests[ret.id].chem_id].amount = 0
    /\ ret.stock = 0

\* C6: the total stock subtracted on behalf of one request never exceeds that
\* request's quantity.
DeductedAtMostOnce ==
    \A r \in DOMAIN requests : deducted[r] <= requests[r].quantity

\* C7: every request whose status is approved has had its quantity deducted
\* from stock.
ApprovedImpliesDeducted ==
    \A r \in DOMAIN requests :
        requests[r].status = "approved" => deducted[r] >= requests[r].quantity

\* C8: set_request_status never changes a chemical's amount.
SetStatusKeepsAmounts ==
    [][ ret'.op = "set_request_status"
        => (/\ DOMAIN chemicals' = DOMAIN chemicals
            /\ \A c \in DOMAIN chemicals :
                   chemicals'[c].amount = chemicals[c].amount) ]_vars

\* C8 witness: a request whose quantity was deducted on approval has just been
\* marked fulfilled.
SetStatusKeepsAmountsWitness ==
    /\ ret.op = "set_request_status"
    /\ \E r \in DOMAIN requests :
           /\ requests[r].status = "fulfilled"
           /\ requests[r].quantity > 0
           /\ deducted[r] = requests[r].quantity

StatusEdges ==
    { <<"pending", "approved">>, <<"pending", "rejected">>,
      <<"approved", "fulfilled">> }

\* C9: a request's status changes only along pending -> approved,
\* pending -> rejected and approved -> fulfilled.
StatusChangesAlongEdges ==
    [][ \A r \in DOMAIN requests :
          requests'[r].status # requests[r].status
          => <<requests[r].status, requests'[r].status>> \in StatusEdges ]_vars

\* C10: once a request's status is rejected or fulfilled, no operation
\* changes it.
TerminalStatusesStay ==
    [][ \A r \in DOMAIN requests :
          requests[r].status \in {"rejected", "fulfilled"}
          => requests'[r].status = requests[r].status ]_vars

\* C11: an approval of a rejected request whose chemical exists and holds
\* 0 < quantity <= amount is not denied: it deducts the quantity and sets the
\* status to approved.
RejectedIsReapproved ==
    [][ \A r \in DOMAIN requests :
          (/\ ret'.op = ApproveOp /\ ret'.id = r
           /\ requests[r].status = "rejected"
           /\ requests[r].chem_id \in DOMAIN chemicals
           /\ 0 < requests[r].quantity
           /\ requests[r].quantity <= chemicals[requests[r].chem_id].amount)
          => (/\ ret'.ok
              /\ chemicals'[requests[r].chem_id].amount =
                     chemicals[requests[r].chem_id].amount - requests[r].quantity
              /\ requests'[r].status = "approved") ]_vars

\* C11 witness: a request approved a second time.  No caller writes "pending",
\* so the second approval found the request rejected.
RejectedIsReapprovedWitness ==
    /\ ret.op = ApproveOp /\ ret.ok
    /\ requests[ret.id].status = "approved"
    /\ requests[ret.id].quantity > 0
    /\ deducted[ret.id] = 2 * requests[ret.id].quantity

\* C12: the deduction and the status flip of an approval become visible in
\* one step: a step that makes a request approved is a successful approval
\* that writes the chemical's amount and deducts the quantity in that same
\* step, and a step that deducts stock for a request leaves it approved.
DeductionAndStatusTogether ==
    [][ \A r \in DOMAIN requests :
          /\ (requests[r].status # "approved" /\ requests'[r].status = "approved")
             => (/\ ret'.op = ApproveOp /\ ret'.ok /\ ret'.id = r
                 /\ deducted'[r] = deducted[r] + requests[r].quantity
                 /\ chemicals'[requests[r].chem_id].amount = ret'.stock)
          /\ (deducted'[r] # deducted[r])
             => requests'[r].status = "approved" ]_vars

\* C12 witness: one Session has committed its approval while another Session
\* is between its reads and its commit.
DeductionAndStatusTogetherWitness ==
    \E s, t \in SessionIds :
        /\ sessions[s].pc = "done" /\ sessions[t].pc = "commit"
        /\ requests[sessions[s].req_id].status = "approved"
        /\ deducted[sessions[s].req_id] = sessions[s].need
        /\ chemicals[sessions[s].chem_id].amount = sessions[s].have - sessions[s].need

\* C13: add_request stores no request with quantity <= 0 and none whose
\* chem_id names no chemical (chemicals are never deleted, so a stored request
\* that breaks this was accepted by add_request).
StoredRequestsAreValid ==
    \A r \in DOMAIN requests :
        /\ requests[r].quantity > 0
        /\ requests[r].chem_id \in DOMAIN chemicals

\* C14: a call of update_stock either adds its delta to the amount of one
\* existing chemical and changes nothing else, or (the chem_id names no
\* chemical) fails with an error and changes nothing.
UpdateStockAddsOrFails ==
    [][ ret'.op = "update_stock"
        => \/ /\ ret'.ok
              /\ \E c \in DOMAIN chemicals, d \in DeltaInputs :
                     chemicals' = [chemicals EXCEPT ![c].amount = chemicals[c].amount + d]
              /\ requests' = requests
              /\ purchase_requests' = purchase_requests
           \/ /\ ~ret'.ok
              /\ ret'.reason = "Chemical not found"
              /\ db' = db ]_vars

\* C15: a call that saves a chemical (upsert_chemical, or add_chemical in
\* chemical_page.py) leaves exactly one chemical with the trimmed name, and
\* its amount, unit, location and notes are those of this call; so of two
\* calls with the same name the second one's values are the stored ones.
UpsertConverges ==
    [][ \A name \in NameInputs, amount \in AmountInputs, attrs \in AttrInputs :
          (\/ upsert_chemical(name, amount, attrs[1], attrs[2], attrs[3])
           \/ add_chemical(name, amount, attrs[1], attrs[2], attrs[3]))
          => /\ Cardinality({c \in DOMAIN chemicals' :
                                 chemicals'[c].name = Strip(name)}) = 1
             /\ \A c \in DOMAIN chemicals' :
                    chemicals'[c].name = Strip(name)
                    => chemicals'[c] = Chemical(Strip(name), amount, Strip(attrs[1]),
                                                Strip(attrs[2]), Strip(attrs[3])) ]_vars

\* C16: no stored chemical has a name that is empty after trimming, which a
\* validation error in upsert_chemical would guarantee.
NoEmptyChemicalName ==
    \A c \in DOMAIN chemicals : Strip(chemicals[c].name) # <<>>

\* C17: set_request_status and set_purchase_request_status write the new
\* status over whatever the record's status was when the record exists; when
\* it does not exist both return normally and no table changes.
StatusOverwriteOrNoOp ==
    [][ /\ \A r \in ReqIdInputs, st \in StatusInputs :
               set_request_status(r, st)
               => /\ ret'.ok
                  /\ r \in DOMAIN requests
                     => /\ requests'[r].status = st
                        /\ requests' = [requests EXCEPT ![r].status = st]
                  /\ r \notin DOMAIN requests => requests' = requests
                  /\ chemicals' = chemicals
                  /\ purchase_requests' = purchase_requests
        /\ \A p \in PurchIdInputs, st \in PurchaseStatusInputs :
               set_purchase_request_status(p, st)
               => /\ ret'.ok
                  /\ p \in DOMAIN purchase_requests
                     => /\ purchase_requests'[p].status = st
                        /\ purchase_requests' =
                               [purchase_requests EXCEPT ![p].status = st]
                  /\ p \notin DOMAIN purchase_requests
                     => purchase_requests' = purchase_requests
                  /\ chemicals' = chemicals
                  /\ requests' = requests ]_vars

\* a purchase request's status was overwritten, then an id naming no purchase
\* request was set, with an overwritten in-stock request alongside
StatusOverwriteOrNoOpWitness ==
    /\ ret.op = "set_purchase_request_status"
    /\ ret.ok
    /\ ret.id \notin DOMAIN purchase_requests
    /\ purchase_requests # <<>>
    /\ purchase_requests[1].status = "purchased"
    /\ requests # <<>>
    /\ requests[1].status = "rejected"

\* C18: a step of add_purchase_request or set_purchase_request_status leaves
\* every chemical and every in-stock request as it was.
PurchaseOpsKeepInventory ==
    [][ ret'.op \in {"add_purchase_request", "set_purchase_request_status"}
        => /\ chemicals' = chemicals
           /\ requests' = requests
           /\ deducted' = deducted ]_vars

PurchaseOpsKeepInventoryWitness ==
    /\ ret.op = "set_purchase_request_status"
    /\ ret.id \in DOMAIN purchase_requests
    /\ purchase_requests[ret.id].status = "purchased"
    /\ chemicals # <<>>
    /\ requests # <<>>

ListingsCompleteAndOrdered ==
    /\ \A status \in FilterInputs :
           LET rows == list_requests(status)
           IN  /\ {rows[i].id : i \in DOMAIN rows} =
                      {r \in DOMAIN requests :
                           status # "" => requests[r].status = status}
               /\ \A i, j \in DOMAIN rows : i < j => rows[i].id > rows[j].id
    /\ LET rows == list_chemicals(<<>>)
       IN  /\ {rows[i].id : i \in DOMAIN rows} = DOMAIN chemicals
           /\ Len(rows) = Len(chemicals)
           /\ \A i, j \in DOMAIN rows : i < j => NameLeq(rows[i].name, rows[j].name)

\* C21: a call of add_request or add_purchase_request that is not refused
\* appends exactly one row, with status pending and an id no row had, and
\* leaves every chemical, request and purchase request that existed as it
\* was; a refused call changes no table.
NewRecordsArePending ==
    [][ /\ ret'.op = "add_request"
           => IF ret'.ok
              THEN /\ Len(requests') = Len(requests) + 1
                   /\ requests'[Len(requests')].status = "pending"
                   /\ \A r \in DOMAIN requests : requests'[r] = requests[r]
                   /\ chemicals' = chemicals
                   /\ purchase_requests' = purchase_requests
              ELSE db' = db
        /\ ret'.op = "add_purchase_request"
           => /\ ret'.ok
              /\ Len(purchase_requests') = Len(purchase_requests) + 1
              /\ ret'.id = Len(purchase_requests')
              /\ ret'.id \notin DOMAIN purchase_requests
              /\ purchase_requests'[ret'.id].status = "pending"
              /\ \A p \in DOMAIN purchase_requests :
                     purchase_requests'[p] = purchase_requests[p]
              /\ chemicals' = chemicals
              /\ requests' = requests ]_vars

\* a second purchase request was added next to one already purchased, with a
\* chemical and two requests stored
NewRecordsArePendingWitness ==
    /\ ret.op = "add_purchase_request"
    /\ ret.id = 2
    /\ Len(purchase_requests) = 2
    /\ purchase_requests[1].status = "purchased"
    /\ purchase_requests[2].status = "pending"
    /\ chemicals # <<>>
    /\ Len(requests) = 2

\* C22: every commit of update_stock changes the chemical's amount by exactly
\* its delta and every commit of an approval by exactly minus the approved
\* quantity, whatever other calls committed since it read the amount; so the
\* final amount is the initial one plus all deltas minus all approved
\* quantities.
NoLostStockUpdate ==
    [][ \A s \in SessionIds :
          (/\ sessions[s].pc \in {"commit", "commit_stock"}
           /\ sessions'[s].pc # sessions[s].pc)
          => chemicals'[sessions[s].chem_id].amount =
                 chemicals[sessions[s].chem_id].amount - sessions[s].need ]_vars

\* C23: with admin sessions that list and then act, a request that stock was
\* deducted for never has status rejected, and a step that writes rejected
\* or fulfilled into a request finds that request pending.
AdminActsOnPending ==
    [][ \A r \in DOMAIN requests :
          /\ deducted'[r] > 0 => requests'[r].status # "rejected"
          /\ (/\ ret'.op = "set_request_status"
              /\ sessions' # sessions
              /\ \E s \in SessionIds :
                     sessions[s].pc \in {"reject_clicked", "fulfill_clicked"}
                     /\ sessions'[s].pc = "idle" /\ sessions[s].req_id = r)
             => requests[r].status = "pending" ]_vars

\* C24: no two chemicals have the same trimmed name, also when calls of
\* upsert_chemical for one new name overlap: the insert that commits second
\* fails and adds no row.
UniqueChemicalNames ==
    /\ \A c, d \in DOMAIN chemicals :
           Strip(chemicals[c].name) = Strip(chemicals[d].name) => c = d
    /\ (ret.op = "upsert_chemical" /\ ~ret.ok)
       => /\ ret.reason = "IntegrityError"
          /\ chemicals # <<>>

\* two overlapping inserts of one name: the second was refused, one row stands
UniqueChemicalNamesWitness ==
    /\ ret.op = "upsert_chemical"
    /\ ~ret.ok
    /\ Len(chemicals) = 1

=============================================================================
